---- MODULE Spec2Model ----
(***************************************************************************)
(* TIFFAstroReader (tiff_astro_reader.py): extraction of the Origin JSON   *)
(* document stored in EXIF tag 37500 of a TIFF file.  The file is a        *)
(* sequence of bytes; one extraction is a sequence of seek/read steps      *)
(* against one file handle.                                                *)
(***************************************************************************)
EXTENDS Integers, Sequences, FiniteSets, TLC

(***************************************************************************)
(* Bounds of the input space.                                              *)
(***************************************************************************)
MaxRoot == 2
MaxExif == 2
MaxCalls == 2

(***************************************************************************)
(* Program constants.                                                      *)
(***************************************************************************)
TAG_EXIF_IFD == 34665
TAG_ORIGIN == 37500
TYPE_UNDEFINED == 7
ROOT_CEILING == 1000
EXIF_CEILING == 100
TIFF_MAGIC == 42

(***************************************************************************)
(* Byte strings used by the code and by the input files.                   *)
(***************************************************************************)
\* b'II' and b'MM'
BytesII == <<73, 73>>
BytesMM == <<77, 77>>
\* "StackedInfo"
kStackedInfo == <<83, 116, 97, 99, 107, 101, 100, 73, 110, 102, 111>>
\* "objectName"
kObjectName == <<111, 98, 106, 101, 99, 116, 78, 97, 109, 101>>
\* "M42"
sM42 == <<77, 52, 50>>
\* b'{"StackedInfo":{"objectName":"M42"}}\x00'
PayloadM42 ==
  <<123, 34, 83, 116, 97, 99, 107, 101, 100, 73, 110, 102, 111, 34, 58, 123,
    34, 111, 98, 106, 101, 99, 116, 78, 97, 109, 101, 34, 58, 34, 77, 52, 50,
    34, 125, 125, 0>>
\* b'StackedInfo{not valid json'
PayloadBad ==
  <<83, 116, 97, 99, 107, 101, 100, 73, 110, 102, 111, 123, 110, 111, 116, 32,
    118, 97, 108, 105, 100, 32, 106, 115, 111, 110>>
\* the deepest nesting the interpreter lets json.loads descend to:
\* sys.getrecursionlimit() of CPython
RecursionLimit == 1000
\* b'[[[...["StackedInfo{"]...]]]\x00': a string inside RecursionLimit arrays
PayloadDeep ==
  [i \in 1..RecursionLimit |-> 91] \o <<34>> \o kStackedInfo \o <<123, 34>>
    \o [i \in 1..RecursionLimit |-> 93] \o <<0>>
\* arbitrary binary: 01 ff 41 7b 1f 00 7d
PayloadJunk == <<1, 255, 65, 123, 31, 0, 125>>
\* b'["StackedInfo{"]\x00'
PayloadArray == <<91, 34>> \o kStackedInfo \o <<123, 34, 93, 0>>
\* b'"StackedInfo{"\x00'
PayloadString == <<34>> \o kStackedInfo \o <<123, 34, 0>>
\* the M42 document with the bytes 01, C8 0A and 7F inside it, followed by
\* a zero byte and b'}x'
PayloadStray ==
  <<1>> \o SubSeq(PayloadM42, 1, 9) \o <<200, 10>>
        \o SubSeq(PayloadM42, 10, 20) \o <<127>>
        \o SubSeq(PayloadM42, 21, Len(PayloadM42)) \o <<125, 120>>

(***************************************************************************)
(* struct.pack / struct.unpack of unsigned 16 and 32 bit integers.         *)
(***************************************************************************)
Pack16(v, le) ==
  IF le THEN <<v % 256, v \div 256>> ELSE <<v \div 256, v % 256>>

Pack32(v, le) ==
  LET b0 == v % 256
      b1 == (v \div 256) % 256
      b2 == (v \div 65536) % 256
      b3 == v \div 16777216
  IN IF le THEN <<b0, b1, b2, b3>> ELSE <<b3, b2, b1, b0>>

Unpack16(d, le) ==
  IF le THEN d[1] + 256 * d[2] ELSE d[2] + 256 * d[1]

\* Values of 2^31 and above are represented by 2^31 - 1: they are only used
\* as seek offsets and read lengths, and every file is shorter than that.
U32_SATURATED == 2147483647

Unpack32(d, le) ==
  LET b == IF le THEN d ELSE <<d[4], d[3], d[2], d[1]>>
  IN IF b[4] >= 128 THEN U32_SATURATED
     ELSE b[1] + 256 * b[2] + 65536 * b[3] + 16777216 * b[4]

(***************************************************************************)
(* Input files.  A file is described by a logical structure                *)
(*   [order, layout, fault, cut, rootpad, root, exif]                      *)
(* and laid out as: 8-byte header, root IFD at offset 8, then the EXIF IFD *)
(* followed by the out-of-line values of the EXIF entries in directory     *)
(* order (layout "dir_first"), or the values followed by the EXIF IFD      *)
(* (layout "val_first").                                                   *)
(*   order : "II" or "MM", the byte order of every multi-byte field        *)
(*   fault : one deviation from the well-formed layout, or an I/O failure  *)
(*           on a well-formed file: open() fails ("noopen"), the first     *)
(*           read fails ("ioread"), the out-of-line read fails ("iopay")   *)
(*   cut   : the file is truncated to this many bytes (-1: not truncated)  *)
(*   rootpad : the number of ImageWidth entries the root IFD starts with   *)
(*   root  : kinds of the root IFD entries after those                     *)
(*   exif  : kinds of the EXIF IFD entries                                 *)
(***************************************************************************)
Orders == {"II", "MM"}
Faults == {"none", "marker", "magic", "ifd0", "rootover", "exifover",
           "noopen", "ioread", "iopay", "ifd_self", "ifd_far"}
RootKinds == {"ptr", "other"}
ExifKinds == {"ud_m42", "ud_bad", "ud_junk", "asc_m42", "other"}
\* further values under tag 37500, type 7: a JSON array, a JSON string, and
\* the M42 document with stray bytes inside it and text after its zero byte
ExtraKinds == {"ud_arr", "ud_str", "ud_stray"}
\* further root entries: the EXIF pointer tag with the value 0, and with the
\* offset of the EXIF IFD in an entry of field type SHORT and count 7
ExtraRootKinds == {"ptr0", "ptr_odd"}
\* an offset far beyond the end of every file
FarOffset == 100000
\* a value under tag 37500, type 7: a JSON document nested RecursionLimit deep
DeepKinds == {"ud_deep"}
\* EXIF pointers that name the root IFD itself and a place beyond the end
\* of the file
LoopRootKinds == {"ptr_self", "ptr_far"}
\* values under tag 37500, type 7, that lie in the root IFD and beyond the
\* end of the file
LoopExifKinds == {"ud_self", "ud_far"}

SeqsUpTo(S, n) == UNION {[1..k -> S] : k \in 0..n}

PayloadOf(kind) ==
  CASE kind \in {"ud_m42", "asc_m42"} -> PayloadM42
    [] kind = "ud_bad" -> PayloadBad
    [] kind = "ud_junk" -> PayloadJunk
    [] kind = "ud_arr" -> PayloadArray
    [] kind = "ud_str" -> PayloadString
    [] kind = "ud_stray" -> PayloadStray
    [] kind = "ud_deep" -> PayloadDeep
    [] OTHER -> <<>>

RECURSIVE PayLen(_, _)
\* total length of the out-of-line values of the first j EXIF entries
PayLen(exif, j) ==
  IF j = 0 THEN 0 ELSE PayLen(exif, j - 1) + Len(PayloadOf(exif[j]))

RootOff == 8
\* the number of root entries: rootpad ImageWidth entries, then in.root
NRoot(in) == in.rootpad + Len(in.root)
RootKindAt(in, j) ==
  IF j <= in.rootpad THEN "other" ELSE in.root[j - in.rootpad]
RootEnd(in) == RootOff + 2 + 12 * NRoot(in) + 4
ExifOff(in) ==
  IF in.layout = "dir_first" THEN RootEnd(in)
  ELSE RootEnd(in) + PayLen(in.exif, Len(in.exif))
ExifEnd(in) == ExifOff(in) + 2 + 12 * Len(in.exif) + 4
PayBase(in) == IF in.layout = "dir_first" THEN ExifEnd(in) ELSE RootEnd(in)
PayOff(in, j) == PayBase(in) + PayLen(in.exif, j - 1)

EntryBytes(tag, type, count, value, le) ==
  Pack16(tag, le) \o Pack16(type, le) \o Pack32(count, le) \o Pack32(value, le)

RootEntry(kind, in, le) ==
  CASE kind = "ptr" -> EntryBytes(TAG_EXIF_IFD, 4, 1, ExifOff(in), le)
    [] kind = "ptr0" -> EntryBytes(TAG_EXIF_IFD, 4, 1, 0, le)
    [] kind = "ptr_odd" -> EntryBytes(TAG_EXIF_IFD, 3, 7, ExifOff(in), le)
    [] kind = "ptr_self" -> EntryBytes(TAG_EXIF_IFD, 4, 1, RootOff, le)
    [] kind = "ptr_far" -> EntryBytes(TAG_EXIF_IFD, 4, 1, FarOffset, le)
    [] OTHER -> EntryBytes(256, 3, 1, 16, le)

ExifEntry(kind, off, le) ==
  CASE kind \in {"ud_m42", "ud_bad", "ud_junk"} \cup ExtraKinds \cup DeepKinds ->
         EntryBytes(TAG_ORIGIN, TYPE_UNDEFINED, Len(PayloadOf(kind)), off, le)
    [] kind = "asc_m42" ->
         EntryBytes(TAG_ORIGIN, 2, Len(PayloadOf(kind)), off, le)
    [] kind = "ud_self" ->
         EntryBytes(TAG_ORIGIN, TYPE_UNDEFINED, 12, RootOff + 2, le)
    [] kind = "ud_far" ->
         EntryBytes(TAG_ORIGIN, TYPE_UNDEFINED, 64, FarOffset, le)
    [] OTHER -> EntryBytes(36864, TYPE_UNDEFINED, 4, 48, le)

RECURSIVE RootEntriesFrom(_, _, _, _)
\* the bytes of the root entries a..b, built by halves
RootEntriesFrom(in, a, b, le) ==
  IF a > b THEN <<>>
  ELSE IF a = b THEN RootEntry(RootKindAt(in, a), in, le)
  ELSE RootEntriesFrom(in, a, (a + b) \div 2, le)
         \o RootEntriesFrom(in, (a + b) \div 2 + 1, b, le)

RootEntries(in, j, le) == RootEntriesFrom(in, 1, j, le)

RECURSIVE ExifEntries(_, _, _)
ExifEntries(in, j, le) ==
  IF j = 0 THEN <<>>
  ELSE ExifEntries(in, j - 1, le) \o ExifEntry(in.exif[j], PayOff(in, j), le)

RECURSIVE Payloads(_, _)
Payloads(exif, j) ==
  IF j = 0 THEN <<>> ELSE Payloads(exif, j - 1) \o PayloadOf(exif[j])

FullFile(in) ==
  LET le == in.order = "II"
      marker == IF in.fault = "marker" THEN <<73, 77>>
                ELSE IF le THEN BytesII ELSE BytesMM
      magic == IF in.fault = "magic" THEN 43 ELSE TIFF_MAGIC
      first == CASE in.fault = "ifd0" -> 0
                [] in.fault = "ifd_self" -> 4
                [] in.fault = "ifd_far" -> FarOffset
                [] OTHER -> RootOff
      nroot == IF in.fault = "rootover" THEN ROOT_CEILING + 1 ELSE NRoot(in)
      nexif == IF in.fault = "exifover" THEN EXIF_CEILING + 1 ELSE Len(in.exif)
      exifdir == Pack16(nexif, le) \o ExifEntries(in, Len(in.exif), le)
                   \o Pack32(0, le)
      values == Payloads(in.exif, Len(in.exif))
  IN marker \o Pack16(magic, le) \o Pack32(first, le)
       \o Pack16(nroot, le) \o RootEntries(in, NRoot(in), le)
       \o Pack32(0, le)
       \o (IF in.layout = "dir_first" THEN exifdir \o values
                                      ELSE values \o exifdir)

\* the bytes of the file, truncated at in.cut
BytesOf(in) ==
  IF in.cut < 0 THEN FullFile(in) ELSE SubSeq(FullFile(in), 1, in.cut)

\* the number of "other" entries the EXIF IFD starts with
RECURSIVE LeadingOthers(_, _)
LeadingOthers(exif, j) ==
  IF j < Len(exif) /\ exif[j + 1] = "other"
    THEN LeadingOthers(exif, j + 1) ELSE j

\* The file as the reader sees it: its length and its bytes, held as runs
\* [rep, unit] (unit repeated rep times) whose concatenation is FullFile:
\* the bytes up to the root entries, the ImageWidth entries the root IFD
\* starts with, the bytes up to the EXIF entries, the "other" entries the
\* EXIF IFD starts with, and the rest.
FileOf(in) ==
  LET le == in.order = "II"
      b == FullFile(in)
      r0 == RootOff + 2
      r1 == r0 + 12 * in.rootpad
      k == LeadingOthers(in.exif, 0)
      e0 == ExifOff(in) + 2
      e1 == e0 + 12 * k
  IN [len |-> IF in.cut < 0 THEN Len(b) ELSE in.cut,
      runs |-> << [rep |-> 1, unit |-> SubSeq(b, 1, r0)],
                  [rep |-> in.rootpad, unit |-> RootEntry("other", in, le)],
                  [rep |-> 1, unit |-> SubSeq(b, r1 + 1, e0)],
                  [rep |-> k, unit |-> ExifEntry("other", 0, le)],
                  [rep |-> 1, unit |-> SubSeq(b, e1 + 1, Len(b))] >>]

\* truncation points relative to the end of the last entry of a directory:
\* 0 none of the entry is missing, 1 and 5 the value and the count field are
\* a byte short, 8 and 10 fields are missing, 12 the whole entry is missing
CutOffsets == {0, 1, 5, 8, 10, 12}
HeaderCuts == 0 .. 8
RootCuts(in) == {c \in {RootEnd(in) - 4 - k : k \in CutOffsets} : c >= 0}
ExifCuts(in) == {c \in {ExifEnd(in) - 4 - k : k \in CutOffsets} : c >= 0}

Shapes ==
  {[order |-> o, layout |-> "dir_first", fault |-> "none", cut |-> -1,
    rootpad |-> 0, root |-> r, exif |-> e] :
     o \in Orders,
     r \in SeqsUpTo(RootKinds, MaxRoot), e \in SeqsUpTo(ExifKinds, MaxExif)}

\* shapes with at most one EXIF entry
Slim == {in \in Shapes : Len(in.exif) <= 1}
\* shapes whose last root entry is the EXIF pointer, after other entries
Pointed ==
  {in \in Shapes :
     /\ Len(in.root) >= 1
     /\ \A j \in DOMAIN in.root :
          in.root[j] = (IF j = Len(in.root) THEN "ptr" ELSE "other")}
ValFirst == {[in EXCEPT !.layout = "val_first"] : in \in Pointed}
\* one file per further kind of value, and the files with a zero EXIF pointer
\* and with an EXIF pointer of another field type
Extras ==
  {[order |-> o, layout |-> "dir_first", fault |-> "none", cut |-> -1,
    rootpad |-> 0, root |-> r, exif |-> e] :
     o \in Orders,
     r \in {<<"ptr">>}, e \in {<<k>> : k \in ExtraKinds}}
  \cup
  {[order |-> o, layout |-> "dir_first", fault |-> "none", cut |-> -1,
    rootpad |-> 0, root |-> r, exif |-> e] :
     o \in Orders,
     r \in {<<"ptr0">>, <<"other", "ptr0">>, <<"ptr0", "ptr">>,
            <<"ptr_odd">>, <<"other", "ptr_odd">>, <<"ptr_odd", "ptr0">>},
     e \in {<<"ud_m42">>}}
\* the files whose directories declare as many entries as the ceilings
\* allow, the EXIF pointer and the payload entry being the last ones, and
\* these files with a declared count of one more
Full ==
  {[order |-> o, layout |-> "dir_first", fault |-> f, cut |-> -1,
    rootpad |-> ROOT_CEILING - 1, root |-> <<"ptr">>,
    exif |-> [j \in 1..EXIF_CEILING |->
                IF j = EXIF_CEILING THEN "ud_m42" ELSE "other"]] :
     o \in Orders, f \in {"none", "rootover", "exifover"}}
\* the files that hold one out-of-line value at their end
OneValue ==
  {in \in Shapes \cup Extras :
     in.root = <<"ptr">> /\ Len(in.exif) = 1 /\ PayloadOf(in.exif[1]) # <<>>}
\* truncation points inside that value: its last byte, its last two bytes
\* and all of its bytes are missing
PayCuts(in) ==
  {Len(FullFile(in)) - k : k \in {1, 2, Len(PayloadOf(in.exif[1]))}}

\* the well-formed files of every shape; a damaged header, a zero first-IFD
\* offset, an over-sized entry count and an I/O failure; truncation inside
\* the header, inside the root IFD, inside the EXIF IFD (in either layout)
\* and inside the out-of-line value
Inputs ==
  Shapes
  \cup ValFirst
  \cup Extras
  \cup Full
  \cup UNION {{[in EXCEPT !.cut = c] : c \in PayCuts(in)} : in \in OneValue}
  \cup {[in EXCEPT !.fault = f] :
          in \in Pointed \cap Slim,
          f \in {"marker", "magic", "ifd0", "noopen", "ioread", "iopay"}}
  \cup {[in EXCEPT !.fault = f] : in \in Slim, f \in {"rootover", "exifover"}}
  \cup {[in EXCEPT !.cut = c] : in \in Pointed \cap Slim, c \in HeaderCuts}
  \cup UNION {{[in EXCEPT !.cut = c] : c \in RootCuts(in)} : in \in Slim}
  \cup UNION {{[in EXCEPT !.cut = c] : c \in ExifCuts(in)} :
              in \in {x \in Pointed \cup ValFirst : Len(x.root) = 1}}

(***************************************************************************)
(* json.loads on a text given as the sequence of its character codes.      *)
(* A result is [ok |-> FALSE] (JSONDecodeError) or                         *)
(* [ok |-> TRUE, v |-> value, p |-> index after the value].                *)
(* Values: [t |-> "object", m |-> function from key to value],             *)
(*         [t |-> "array", a |-> sequence of values],                      *)
(*         [t |-> "string", s |-> codes], [t |-> "int", n |-> integer],    *)
(*         [t |-> "float", lex |-> lexeme], [t |-> "true" / "false" /      *)
(*         "null"].                                                        *)
(***************************************************************************)
JFail == [ok |-> FALSE]
JOk(v, p) == [ok |-> TRUE, v |-> v, p |-> p]
EmptyMap == [x \in {} |-> 0]

At(s, p) == IF p \in 1..Len(s) THEN s[p] ELSE -1

HasAt(s, p, lit) ==
  /\ p + Len(lit) - 1 <= Len(s)
  /\ \A k \in 1..Len(lit) : s[p + k - 1] = lit[k]

IsDigit(c) == c \in 48..57

HexVal(c) ==
  IF c \in 48..57 THEN c - 48
  ELSE IF c \in 97..102 THEN c - 87
  ELSE IF c \in 65..70 THEN c - 55
  ELSE -1

\* value of the four hex digits at p..p+3, or -1
Hex4(s, p) ==
  LET h(k) == HexVal(At(s, p + k))
  IN IF h(0) < 0 \/ h(1) < 0 \/ h(2) < 0 \/ h(3) < 0 THEN -1
     ELSE 4096 * h(0) + 256 * h(1) + 16 * h(2) + h(3)

RECURSIVE SkipWs(_, _)
SkipWs(s, p) ==
  IF At(s, p) \in {32, 9, 10, 13} THEN SkipWs(s, p + 1) ELSE p

RECURSIVE SkipDigits(_, _)
SkipDigits(s, p) == IF IsDigit(At(s, p)) THEN SkipDigits(s, p + 1) ELSE p

RECURSIVE DigitsVal(_, _, _)
DigitsVal(s, p, q) ==
  IF q < p THEN 0 ELSE 10 * DigitsVal(s, p, q - 1) + (s[q] - 48)

SimpleEscape(e) ==
  CASE e = 34 -> 34 [] e = 92 -> 92 [] e = 47 -> 47
    [] e = 98 -> 8 [] e = 102 -> 12 [] e = 110 -> 10
    [] e = 114 -> 13 [] e = 116 -> 9
    [] OTHER -> -1

RECURSIVE ScanString(_, _, _)
\* p is the index after the opening quote
ScanString(s, p, acc) ==
  LET c == At(s, p)
      e == At(s, p + 1)
      u == Hex4(s, p + 2)
      u2 == Hex4(s, p + 8)
      paired == /\ u \in 55296..56319
                /\ At(s, p + 6) = 92 /\ At(s, p + 7) = 117
                /\ u2 \in 56320..57343
  IN IF c = -1 THEN JFail
     ELSE IF c = 34 THEN JOk(acc, p + 1)
     ELSE IF c = 92 THEN
       IF e = 117 THEN
         IF u < 0 THEN JFail
         ELSE IF paired
           THEN ScanString(s, p + 12,
                  Append(acc, 65536 + 1024 * (u - 55296) + (u2 - 56320)))
           ELSE ScanString(s, p + 6, Append(acc, u))
       ELSE IF SimpleEscape(e) < 0 THEN JFail
       ELSE ScanString(s, p + 2, Append(acc, SimpleEscape(e)))
     ELSE IF c < 32 THEN JFail
     ELSE ScanString(s, p + 1, Append(acc, c))

\* NUMBER_RE at p: [ok, v, p] or JFail when the integer part does not match
MatchNumber(s, p) ==
  LET i0 == IF At(s, p) = 45 THEN p + 1 ELSE p
      i1 == IF At(s, i0) = 48 THEN i0 + 1
            ELSE IF At(s, i0) \in 49..57 THEN SkipDigits(s, i0) ELSE i0
      hasFrac == At(s, i1) = 46 /\ IsDigit(At(s, i1 + 1))
      i2 == IF hasFrac THEN SkipDigits(s, i1 + 1) ELSE i1
      e0 == IF At(s, i2 + 1) \in {43, 45} THEN i2 + 2 ELSE i2 + 1
      hasExp == At(s, i2) \in {69, 101} /\ IsDigit(At(s, e0))
      i3 == IF hasExp THEN SkipDigits(s, e0) ELSE i2
      mag == DigitsVal(s, i0, i1 - 1)
  IN IF i1 = i0 THEN JFail
     ELSE IF hasFrac \/ hasExp
       THEN JOk([t |-> "float", lex |-> SubSeq(s, p, i3 - 1)], i3)
       ELSE JOk([t |-> "int", n |-> IF i0 = p THEN mag ELSE 0 - mag], i3)

RECURSIVE ScanOnce(_, _)
RECURSIVE ObjectPairs(_, _, _)
RECURSIVE ArrayItems(_, _, _)

\* p is the index of the quote that opens the next key
ObjectPairs(s, p, m) ==
  IF At(s, p) # 34 THEN JFail
  ELSE
    LET k == ScanString(s, p + 1, <<>>)
    IN IF ~k.ok THEN JFail
       ELSE
         LET q == SkipWs(s, k.p)
         IN IF At(s, q) # 58 THEN JFail
            ELSE
              LET v == ScanOnce(s, SkipWs(s, q + 1))
              IN IF ~v.ok THEN JFail
                 ELSE
                   LET m2 == (k.v :> v.v) @@ m
                       r == SkipWs(s, v.p)
                   IN IF At(s, r) = 125
                        THEN JOk([t |-> "object", m |-> m2], r + 1)
                      ELSE IF At(s, r) # 44 THEN JFail
                      ELSE ObjectPairs(s, SkipWs(s, r + 1), m2)

\* p is the index of the next item
ArrayItems(s, p, acc) ==
  LET v == ScanOnce(s, p)
  IN IF ~v.ok THEN JFail
     ELSE
       LET a2 == Append(acc, v.v)
           r == SkipWs(s, v.p)
       IN IF At(s, r) = 93 THEN JOk([t |-> "array", a |-> a2], r + 1)
          ELSE IF At(s, r) # 44 THEN JFail
          ELSE ArrayItems(s, SkipWs(s, r + 1), a2)

ScanOnce(s, p) ==
  LET c == At(s, p)
      num == MatchNumber(s, p)
  IN IF c = 34 THEN
       LET r == ScanString(s, p + 1, <<>>)
       IN IF r.ok THEN JOk([t |-> "string", s |-> r.v], r.p) ELSE JFail
     ELSE IF c = 123 THEN
       LET q == SkipWs(s, p + 1)
       IN IF At(s, q) = 125 THEN JOk([t |-> "object", m |-> EmptyMap], q + 1)
          ELSE ObjectPairs(s, q, EmptyMap)
     ELSE IF c = 91 THEN
       LET q == SkipWs(s, p + 1)
       IN IF At(s, q) = 93 THEN JOk([t |-> "array", a |-> <<>>], q + 1)
          ELSE ArrayItems(s, q, <<>>)
     ELSE IF HasAt(s, p, <<110, 117, 108, 108>>)
       THEN JOk([t |-> "null"], p + 4)
     ELSE IF HasAt(s, p, <<116, 114, 117, 101>>)
       THEN JOk([t |-> "true"], p + 4)
     ELSE IF HasAt(s, p, <<102, 97, 108, 115, 101>>)
       THEN JOk([t |-> "false"], p + 5)
     ELSE IF num.ok THEN num
     ELSE IF HasAt(s, p, <<78, 97, 78>>)
       THEN JOk([t |-> "float", lex |-> SubSeq(s, p, p + 2)], p + 3)
     ELSE IF HasAt(s, p, <<73, 110, 102, 105, 110, 105, 116, 121>>)
       THEN JOk([t |-> "float", lex |-> SubSeq(s, p, p + 7)], p + 8)
     ELSE IF HasAt(s, p, <<45, 73, 110, 102, 105, 110, 105, 116, 121>>)
       THEN JOk([t |-> "float", lex |-> SubSeq(s, p, p + 8)], p + 9)
     ELSE JFail

json_loads(s) ==
  LET r == ScanOnce(s, SkipWs(s, 1))
  IN IF ~r.ok THEN JFail
     ELSE IF SkipWs(s, r.p) # Len(s) + 1 THEN JFail
     ELSE [ok |-> TRUE, v |-> r.v]

(***************************************************************************)
(* State.                                                                  *)
(*   inp, file         the logical structure of the file, and its length   *)
(*                     and bytes                                           *)
(*   is_little_endian  the reader object's byte-order flag                 *)
(*   pc                position in extract_astronomical_metadata           *)
(*   is_open, pos      the file handle and its cursor                      *)
(*   first_ifd_offset, exif_offset, json_text, num_entries, idx : locals   *)
(*   result            the value returned by the current call              *)
(*   calls, prev       number of calls started, outcome of the last one    *)
(*   tid, saved, shared  the running thread, the registers of the thread   *)
(*                     that is not running, and whether the two threads    *)
(*                     use one reader object (only used with two threads)  *)
(*   root_read, exif_read, short_entries, payload_reads, parse_calls :     *)
(*                     what the current call has read and parsed so far:   *)
(*                     entries of each directory, entries for which fewer  *)
(*                     than 12 bytes were left, out-of-line reads, texts   *)
(*                     handed to json.loads                                *)
(*   extracted, opens  the bytes and the decoded text of each out-of-line  *)
(*                     read, the number of handles the call has opened     *)
(***************************************************************************)
VARIABLES inp, file, is_little_endian, pc, is_open, pos,
          first_ifd_offset, exif_offset, json_text, num_entries, idx,
          result, calls, prev, tid, saved, shared,
          root_read, exif_read, short_entries, payload_reads, parse_calls,
          extracted, opens

vars == <<inp, file, is_little_endian, pc, is_open, pos,
          first_ifd_offset, exif_offset, json_text, num_entries, idx,
          result, calls, prev, tid, saved, shared,
          root_read, exif_read, short_entries, payload_reads, parse_calls,
          extracted, opens>>

locals == <<first_ifd_offset, exif_offset, json_text, num_entries, idx>>
ghost == <<root_read, exif_read, short_entries, payload_reads, parse_calls,
           extracted, opens>>
threads == <<tid, saved, shared>>
harness == <<inp, file, calls, prev, threads>>

\* Python's None for Optional[int] and Optional[str]
NoOffset == -1
NoText == <<-1>>

Pending == [kind |-> "pending"]
RNone == [kind |-> "None"]
RDoc(v) == [kind |-> "doc", val |-> v]

(***************************************************************************)
(* File primitives.                                                        *)
(***************************************************************************)
\* the length of the file
FileLen == file.len

RECURSIVE ByteIn(_, _, _)
\* byte i (from 1) of the runs k, k + 1, ...
ByteIn(runs, k, i) ==
  LET n == runs[k].rep * Len(runs[k].unit)
  IN IF i <= n THEN runs[k].unit[((i - 1) % Len(runs[k].unit)) + 1]
     ELSE ByteIn(runs, k + 1, i - n)

\* the byte at offset i - 1 of the file
ByteAt(i) == ByteIn(file.runs, 1, i)

RECURSIVE ReadIn(_, _, _, _)
\* the m bytes that follow the first p bytes of the runs k, k + 1, ...
ReadIn(runs, k, p, m) ==
  LET n == runs[k].rep * Len(runs[k].unit)
  IN IF p >= n THEN ReadIn(runs, k + 1, p - n, m)
     ELSE IF runs[k].rep = 1 /\ m <= n - p
       THEN SubSeq(runs[k].unit, p + 1, p + m)
     ELSE [j \in 1..m |-> ByteIn(runs, k, p + j)]

\* f.read(n) with the cursor at p: at most n bytes, fewer at end of file
ReadAt(p, n) ==
  IF p >= FileLen THEN <<>>
  ELSE ReadIn(file.runs, 1, p, IF n >= FileLen - p THEN FileLen - p ELSE n)
\* the cursor after f.read(n) at p
After(p, n) == p + Len(ReadAt(p, n))

\* read_uint16 that answers 0xFFFF on a short read
read_uint16_ones(p) ==
  LET data == ReadAt(p, 2)
  IN IF Len(data) # 2 THEN 65535 ELSE Unpack16(data, is_little_endian)

read_uint16(p) ==
  LET data == ReadAt(p, 2)
  IN IF Len(data) # 2 THEN 0 ELSE Unpack16(data, is_little_endian)

\* read_uint32 that always unpacks '<I'
read_uint32_le(p) ==
  LET data == ReadAt(p, 4)
  IN IF Len(data) # 4 THEN 0 ELSE Unpack32(data, TRUE)

\* read_uint32 that answers the usual first-IFD offset on a short read
read_uint32_default(p) ==
  LET data == ReadAt(p, 4)
  IN IF Len(data) # 4 THEN RootOff ELSE Unpack32(data, is_little_endian)

\* read_uint32 that pads a short read with zero bytes before unpacking
read_uint32_pad(p) ==
  LET data == ReadAt(p, 4)
      padded == data \o [k \in 1..(4 - Len(data)) |-> 0]
  IN Unpack32(padded, is_little_endian)

read_uint32(p) ==
  LET data == ReadAt(p, 4)
  IN IF Len(data) # 4 THEN 0 ELSE Unpack32(data, is_little_endian)

\* read_data_at_offset that gives no data when fewer than count bytes are left
read_data_at_offset_exact(offset, count) ==
  IF Len(ReadAt(offset, count)) < count THEN <<>> ELSE ReadAt(offset, count)

\* read_data_at_offset without the seek to offset
read_data_at_offset_noseek(offset, count) == ReadAt(pos, count)

\* tell, seek(offset), read(count), seek back: the cursor is unchanged
read_data_at_offset(offset, count) == ReadAt(offset, count)

\* read_data_at_offset without the seek back: the cursor stays after the data
CursorAfterProbe_lost(cur, offset, count) ==
  IF offset >= FileLen THEN offset
  ELSE offset + Len(ReadAt(offset, count))

\* current_pos = f.tell() ... f.seek(current_pos)
CursorAfterProbe(cur, offset, count) == cur

\* one 12-byte directory entry read field by field with the cursor at p
ReadEntry(p) ==
  LET p1 == After(p, 2)
      p2 == After(p1, 2)
      p3 == After(p2, 4)
  IN [tag |-> read_uint16(p), entry_type |-> read_uint16(p1),
      count |-> read_uint32(p2), value_offset |-> read_uint32(p3),
      end |-> After(p3, 4)]

\* the tag test against ImageWidth (256) instead of the EXIF pointer
IsExifTag_wrong(tag) == tag = 256

\* if tag == 34665
IsExifTag(tag) == tag = TAG_EXIF_IFD

\* the entry test without the field type
IsOriginEntry_tagonly(tag, entry_type) == tag = TAG_ORIGIN

\* if tag == 37500 and entry_type == 7
IsOriginEntry(tag, entry_type) ==
  tag = TAG_ORIGIN /\ entry_type = TYPE_UNDEFINED

\* the sanity check off by one
TooMany_off(n, ceiling) == n > ceiling + 1

\* the sanity check that already rejects a count equal to the ceiling
TooMany_strict(n, ceiling) == n >= ceiling

\* the sanity checks on the entry count
TooMany(n, ceiling) == n > ceiling

\* the magic test that also lets BigTIFF (43) through
MagicOk_bigtiff(magic) == magic \in {TIFF_MAGIC, 43}

\* if magic != 42: return None
MagicOk(magic) == magic = TIFF_MAGIC

RECURSIVE DecodeFrom_stop(_, _)
\* the decoding that also stops at the first byte outside 0x20..0x7E
DecodeFrom_stop(data, k) ==
  IF k > Len(data) \/ data[k] = 0 THEN <<>>
  ELSE IF 32 <= data[k] /\ data[k] <= 126
    THEN <<data[k]>> \o DecodeFrom_stop(data, k + 1)
    ELSE <<>>

RECURSIVE DecodeFrom_nobreak(_, _)
\* the decoding without the break at the zero byte
DecodeFrom_nobreak(data, k) ==
  IF k > Len(data) THEN <<>>
  ELSE IF 32 <= data[k] /\ data[k] <= 126
    THEN <<data[k]>> \o DecodeFrom_nobreak(data, k + 1)
    ELSE DecodeFrom_nobreak(data, k + 1)

RECURSIVE DecodeRange(_, _, _)
\* the loop over the bytes data[a..b], run by halves: the text it adds and
\* whether it has met the break at a zero byte
DecodeRange(data, a, b) ==
  IF a > b THEN [text |-> <<>>, broke |-> FALSE]
  ELSE IF a = b
    THEN IF data[a] = 0 THEN [text |-> <<>>, broke |-> TRUE]
         ELSE IF 32 <= data[a] /\ data[a] <= 126
           THEN [text |-> <<data[a]>>, broke |-> FALSE]
           ELSE [text |-> <<>>, broke |-> FALSE]
  ELSE LET l == DecodeRange(data, a, (a + b) \div 2)
           r == DecodeRange(data, (a + b) \div 2 + 1, b)
       IN IF l.broke THEN l
          ELSE [text |-> l.text \o r.text, broke |-> r.broke]

\* printable ASCII of data[k..], up to the first zero byte
DecodeFrom(data, k) == DecodeRange(data, k, Len(data)).text

Decode(data) == DecodeFrom(data, 1)

Contains(text, sub) ==
  \E k \in 1..(Len(text) - Len(sub) + 1) : HasAt(text, k, sub)

\* the sniff without the "StackedInfo" test
Sniff_brace(text) == Contains(text, <<123>>)

\* "StackedInfo" in text and "{" in text
Sniff(text) == Contains(text, kStackedInfo) /\ Contains(text, <<123>>)

\* the registers of the other thread when there is no other thread
NoThread == [pc |-> "none"]

(***************************************************************************)
(* Initial state: a reader constructed for one of the input files, and one *)
(* thread.                                                                 *)
(***************************************************************************)
Init ==
  /\ inp \in Inputs
  /\ file = FileOf(inp)
  /\ is_little_endian = TRUE
  /\ pc = "start"
  /\ is_open = FALSE
  /\ pos = 0
  /\ first_ifd_offset = 0
  /\ exif_offset = NoOffset
  /\ json_text = NoText
  /\ num_entries = 0
  /\ idx = 0
  /\ result = Pending
  /\ calls = 1
  /\ prev = [order |-> "-", result |-> Pending]
  /\ root_read = 0
  /\ exif_read = 0
  /\ short_entries = 0
  /\ payload_reads = <<>>
  /\ parse_calls = <<>>
  /\ extracted = <<>>
  /\ opens = 0
  /\ tid = 1
  /\ saved = NoThread
  /\ shared = FALSE

\* a return that leaves the handle open
Return_leak(r) ==
  /\ result' = r
  /\ pc' = "done"
  /\ UNCHANGED is_open

\* return r from inside the with block: the handle is closed
Return(r) ==
  /\ result' = r
  /\ is_open' = FALSE
  /\ pc' = "done"

\* IOError missing from the except clause: it reaches the caller
OnIOError_raise == [kind |-> "IOError"]

\* except (IOError, json.JSONDecodeError, struct.error): return None
OnIOError == RNone

\* with open(self.filename, 'rb') as f; open() may raise IOError
Open ==
  /\ pc = "start"
  /\ IF inp.fault = "noopen"
       THEN /\ result' = OnIOError
            /\ pc' = "done"
            /\ UNCHANGED <<is_open, pos, opens>>
       ELSE /\ is_open' = TRUE
            /\ opens' = opens + 1
            /\ pos' = 0
            /\ pc' = "byte_order"
            /\ UNCHANGED result
  /\ UNCHANGED <<is_little_endian, locals, harness, root_read, exif_read,
                 short_entries, payload_reads, parse_calls, extracted>>

\* a header parse that leaves the flag of the reader as it finds it
FlagOfMarker_keep(byte_order) == is_little_endian

\* is_little_endian = True for b'II', False for b'MM'
FlagOfMarker(byte_order) == byte_order = BytesII

\* byte_order = f.read(2) and the II / MM test; the read may raise IOError
ReadByteOrder ==
  /\ pc = "byte_order"
  /\ LET byte_order == ReadAt(pos, 2)
     IN /\ pos' = IF inp.fault = "ioread" THEN pos ELSE After(pos, 2)
        /\ IF inp.fault = "ioread"
             THEN /\ Return(OnIOError)
                  /\ UNCHANGED is_little_endian
           ELSE IF byte_order = BytesII
             THEN /\ is_little_endian' = FlagOfMarker(byte_order)
                  /\ pc' = "magic"
                  /\ UNCHANGED <<result, is_open>>
           ELSE IF byte_order = BytesMM
             THEN /\ is_little_endian' = FlagOfMarker(byte_order)
                  /\ pc' = "magic"
                  /\ UNCHANGED <<result, is_open>>
           ELSE /\ Return(RNone)
                /\ UNCHANGED is_little_endian
  /\ UNCHANGED <<locals, harness, ghost>>

\* magic = self.read_uint16(f); if magic != 42: return None
ReadMagic ==
  /\ pc = "magic"
  /\ pos' = After(pos, 2)
  /\ IF ~MagicOk(read_uint16(pos))
       THEN Return(RNone)
       ELSE pc' = "first_ifd" /\ UNCHANGED <<result, is_open>>
  /\ UNCHANGED <<is_little_endian, locals, harness, ghost>>

\* first_ifd_offset = self.read_uint32(f)
ReadFirstIfdOffset ==
  /\ pc = "first_ifd"
  /\ first_ifd_offset' = read_uint32(pos)
  /\ pos' = After(pos, 4)
  /\ pc' = "scan_ifd"
  /\ UNCHANGED <<is_little_endian, is_open, exif_offset, json_text,
                 num_entries, idx, result, harness, ghost>>

(***************************************************************************)
(* scan_ifd_for_exif                                                       *)
(***************************************************************************)
\* offset test, seek, entry count and its sanity check
ScanIfdBegin ==
  /\ pc = "scan_ifd"
  /\ IF first_ifd_offset = 0
       THEN /\ exif_offset' = NoOffset
            /\ pc' = "check_exif"
            /\ UNCHANGED <<pos, num_entries, idx>>
       ELSE LET n == read_uint16(first_ifd_offset)
            IN /\ pos' = After(first_ifd_offset, 2)
               /\ num_entries' = n
               /\ idx' = 0
               /\ IF TooMany(n, ROOT_CEILING)
                    THEN exif_offset' = NoOffset /\ pc' = "check_exif"
                    ELSE pc' = "ifd_loop" /\ UNCHANGED exif_offset
  /\ UNCHANGED <<is_little_endian, is_open, first_ifd_offset, json_text,
                 result, harness, ghost>>

\* a loop that does not advance
NextIndex_stuck(i) == i

\* for i in range(num_entries): the next iteration
NextIndex(i) == i + 1

\* a lookup that takes the value only from a LONG entry of count 1
ExifOffsetOf_typed(e) ==
  IF e.entry_type = 4 /\ e.count = 1 THEN e.value_offset ELSE NoOffset

\* if tag == 34665: return value_offset
ExifOffsetOf(e) == e.value_offset

\* one iteration of the loop over the root entries
ScanIfdEntry ==
  /\ pc = "ifd_loop"
  /\ idx < num_entries
  /\ LET e == ReadEntry(pos)
     IN /\ pos' = e.end
        /\ root_read' = root_read + 1
        /\ short_entries' = short_entries + (IF e.end - pos < 12 THEN 1 ELSE 0)
        /\ IF IsExifTag(e.tag)
             THEN /\ exif_offset' = ExifOffsetOf(e)
                  /\ pc' = "check_exif"
                  /\ UNCHANGED idx
             ELSE /\ idx' = NextIndex(idx)
                  /\ UNCHANGED <<exif_offset, pc>>
  /\ UNCHANGED <<is_little_endian, is_open, first_ifd_offset, json_text,
                 num_entries, result, harness,
                 exif_read, payload_reads, parse_calls, extracted, opens>>

\* the loop ran out of entries: return None
ScanIfdEnd ==
  /\ pc = "ifd_loop"
  /\ idx >= num_entries
  /\ exif_offset' = NoOffset
  /\ pc' = "check_exif"
  /\ UNCHANGED <<is_little_endian, is_open, pos, first_ifd_offset, json_text,
                 num_entries, idx, result, harness, ghost>>

\* a test that takes only None for "no offset"
NotOffset_none(x) == x = NoOffset

\* "not offset": None and 0 are both falsy
NotOffset(x) == x = NoOffset \/ x = 0

\* if not exif_offset: return None
CheckExif ==
  /\ pc = "check_exif"
  /\ IF NotOffset(exif_offset)
       THEN Return(RNone)
       ELSE pc' = "scan_exif" /\ UNCHANGED <<result, is_open>>
  /\ UNCHANGED <<is_little_endian, pos, locals, harness, ghost>>

(***************************************************************************)
(* scan_exif_for_origin_data                                               *)
(***************************************************************************)
\* seek, entry count and its sanity check
ScanExifBegin ==
  /\ pc = "scan_exif"
  /\ LET n == read_uint16(exif_offset)
     IN /\ pos' = After(exif_offset, 2)
        /\ num_entries' = n
        /\ idx' = 0
        /\ IF TooMany(n, EXIF_CEILING)
             THEN json_text' = NoText /\ pc' = "check_json"
             ELSE pc' = "exif_loop" /\ UNCHANGED json_text
  /\ UNCHANGED <<is_little_endian, is_open, first_ifd_offset, exif_offset,
                 result, harness, ghost>>

\* the walk given up at the first rejected text ("first match wins")
AfterRejected_stop(i) == num_entries

\* the text failed the sniff: the for loop goes on with the next entry
AfterRejected(i) == i + 1

\* one iteration of the loop over the EXIF entries
ScanExifEntry ==
  /\ pc = "exif_loop"
  /\ idx < num_entries
  /\ LET e == ReadEntry(pos)
         data == read_data_at_offset(e.value_offset, e.count)
         text == Decode(data)
     IN /\ exif_read' = exif_read + 1
        /\ short_entries' = short_entries + (IF e.end - pos < 12 THEN 1 ELSE 0)
        /\ IF IsOriginEntry(e.tag, e.entry_type)
             THEN /\ payload_reads' =
                       Append(payload_reads,
                              [offset |-> e.value_offset, count |-> e.count])
                  /\ IF inp.fault = "iopay"
                       THEN /\ Return(OnIOError)
                            /\ pos' = e.end
                            /\ UNCHANGED <<json_text, idx, extracted>>
                       ELSE /\ pos' = CursorAfterProbe(e.end, e.value_offset,
                                                       e.count)
                            /\ extracted' =
                                 Append(extracted,
                                        [data |-> data, text |-> text])
                            /\ UNCHANGED <<result, is_open>>
                            /\ IF Sniff(text)
                                 THEN /\ json_text' = text
                                      /\ pc' = "check_json"
                                      /\ UNCHANGED idx
                                 ELSE /\ idx' = AfterRejected(idx)
                                      /\ UNCHANGED <<json_text, pc>>
             ELSE /\ pos' = e.end
                  /\ idx' = idx + 1
                  /\ UNCHANGED <<json_text, pc, payload_reads, extracted,
                                 result, is_open>>
  /\ UNCHANGED <<is_little_endian, first_ifd_offset, exif_offset,
                 num_entries, harness, root_read, parse_calls, opens>>

\* the loop ran out of entries: return None
ScanExifEnd ==
  /\ pc = "exif_loop"
  /\ idx >= num_entries
  /\ json_text' = NoText
  /\ pc' = "check_json"
  /\ UNCHANGED <<is_little_endian, is_open, pos, first_ifd_offset,
                 exif_offset, num_entries, idx, result, harness, ghost>>

\* if not json_text: return None
CheckJson ==
  /\ pc = "check_json"
  /\ IF json_text = NoText \/ json_text = <<>>
       THEN Return(RNone)
       ELSE pc' = "parse" /\ UNCHANGED <<result, is_open>>
  /\ UNCHANGED <<is_little_endian, pos, locals, harness, ghost>>

\* json.JSONDecodeError missing from the except clause: it reaches the caller
OnDecodeError_raise == [kind |-> "JSONDecodeError"]

\* except (IOError, json.JSONDecodeError, struct.error): return None
OnDecodeError == RNone

\* the text opens RecursionLimit arrays one inside the other: the scanner of
\* json.loads, which calls itself for every nested value, gives up there
ExceedsRecursionLimit(text) ==
  /\ Len(text) >= RecursionLimit
  /\ \A i \in 1..RecursionLimit : text[i] = 91

\* RecursionError is not in the except clause: the with block closes the
\* file and the exception reaches the caller
OnRecursionError == [kind |-> "RecursionError"]

\* return json.loads(json_text), with json.JSONDecodeError caught: return None
ParseJson ==
  /\ pc = "parse"
  /\ parse_calls' = Append(parse_calls, json_text)
  /\ IF ExceedsRecursionLimit(json_text)
       THEN Return(OnRecursionError)
       ELSE LET r == json_loads(json_text)
            IN IF r.ok THEN Return(RDoc(r.v)) ELSE Return(OnDecodeError)
  /\ UNCHANGED <<is_little_endian, pos, locals, harness,
                 root_read, exif_read, short_entries, payload_reads,
                 extracted, opens>>

(***************************************************************************)
(* A further call on the same reader object after the previous one         *)
(* returned; the file then holds the same logical structure, encoded in    *)
(* either byte order.                                                      *)
(***************************************************************************)
Again ==
  /\ pc = "done"
  /\ calls < MaxCalls
  /\ \E o \in Orders :
       /\ inp' = [inp EXCEPT !.order = o]
       /\ file' = FileOf(inp')
  /\ UNCHANGED is_little_endian
  /\ prev' = [order |-> inp.order, result |-> result]
  /\ calls' = calls + 1
  /\ pc' = "start"
  /\ result' = Pending
  /\ first_ifd_offset' = 0
  /\ exif_offset' = NoOffset
  /\ json_text' = NoText
  /\ num_entries' = 0
  /\ idx' = 0
  /\ root_read' = 0
  /\ exif_read' = 0
  /\ short_entries' = 0
  /\ payload_reads' = <<>>
  /\ parse_calls' = <<>>
  /\ extracted' = <<>>
  /\ opens' = 0
  /\ UNCHANGED <<is_open, pos, threads>>

Next ==
  \/ Open
  \/ ReadByteOrder
  \/ ReadMagic
  \/ ReadFirstIfdOffset
  \/ ScanIfdBegin
  \/ ScanIfdEntry
  \/ ScanIfdEnd
  \/ CheckExif
  \/ ScanExifBegin
  \/ ScanExifEntry
  \/ ScanExifEnd
  \/ CheckJson
  \/ ParseJson
  \/ Again

Spec == Init /\ [][Next]_vars

(***************************************************************************)
(* Two extractions running at once.  Each thread has its own call frame    *)
(* and its own file handle; the variables hold the frame of the running    *)
(* thread and `saved` the frame of the other one.  The threads call either *)
(* one reader object (then on the same file, and self.is_little_endian is  *)
(* one attribute for both) or two reader objects.                          *)
(***************************************************************************)
\* the files the two threads read: with and without EXIF pointer, with and
\* without a payload, in both byte orders
ConcInputs ==
  {[order |-> o, layout |-> "dir_first", fault |-> "none", cut |-> -1,
    rootpad |-> 0, root |-> r, exif |-> e] :
     o \in Orders,
     r \in {<<>>, <<"ptr">>},
     e \in {<<>>, <<"ud_m42">>, <<"ud_bad">>}}

\* the frame of a thread that has not started its call, on a new reader
FreshThread(in) ==
  [inp |-> in, file |-> FileOf(in), is_little_endian |-> TRUE,
   pc |-> "start", is_open |-> FALSE, pos |-> 0,
   first_ifd_offset |-> 0, exif_offset |-> NoOffset, json_text |-> NoText,
   num_entries |-> 0, idx |-> 0, result |-> Pending,
   root_read |-> 0, exif_read |-> 0, short_entries |-> 0,
   payload_reads |-> <<>>, parse_calls |-> <<>>, extracted |-> <<>>,
   opens |-> 0]

\* the frame of the running thread
ThisThread ==
  [inp |-> inp, file |-> file, is_little_endian |-> is_little_endian,
   pc |-> pc, is_open |-> is_open, pos |-> pos,
   first_ifd_offset |-> first_ifd_offset, exif_offset |-> exif_offset,
   json_text |-> json_text, num_entries |-> num_entries, idx |-> idx,
   result |-> result,
   root_read |-> root_read, exif_read |-> exif_read,
   short_entries |-> short_entries, payload_reads |-> payload_reads,
   parse_calls |-> parse_calls, extracted |-> extracted, opens |-> opens]

InitConc ==
  /\ inp \in ConcInputs
  /\ file = FileOf(inp)
  /\ is_little_endian = TRUE
  /\ pc = "start"
  /\ is_open = FALSE
  /\ pos = 0
  /\ first_ifd_offset = 0
  /\ exif_offset = NoOffset
  /\ json_text = NoText
  /\ num_entries = 0
  /\ idx = 0
  /\ result = Pending
  /\ calls = 1
  /\ prev = [order |-> "-", result |-> Pending]
  /\ root_read = 0
  /\ exif_read = 0
  /\ short_entries = 0
  /\ payload_reads = <<>>
  /\ parse_calls = <<>>
  /\ extracted = <<>>
  /\ opens = 0
  /\ tid = 1
  /\ shared \in BOOLEAN
  /\ \E other \in ConcInputs :
       /\ shared => other = inp
       /\ saved = FreshThread(other)

\* the byte-order flag as a single global for all readers
FlagAfterSwitch_global(sh, mine, theirs) == mine

\* self.is_little_endian is an attribute of the reader object: the thread
\* switched to finds the value the other thread left when both use one
\* reader, and the value of its own reader otherwise
FlagAfterSwitch(sh, mine, theirs) == IF sh THEN mine ELSE theirs

\* the scheduler suspends the running thread and resumes the other one
Switch ==
  /\ saved # NoThread
  /\ saved.pc # "done"
  /\ tid' = 3 - tid
  /\ saved' = ThisThread
  /\ inp' = saved.inp
  /\ file' = saved.file
  /\ is_little_endian' =
       FlagAfterSwitch(shared, is_little_endian, saved.is_little_endian)
  /\ pc' = saved.pc
  /\ is_open' = saved.is_open
  /\ pos' = saved.pos
  /\ first_ifd_offset' = saved.first_ifd_offset
  /\ exif_offset' = saved.exif_offset
  /\ json_text' = saved.json_text
  /\ num_entries' = saved.num_entries
  /\ idx' = saved.idx
  /\ result' = saved.result
  /\ root_read' = saved.root_read
  /\ exif_read' = saved.exif_read
  /\ short_entries' = saved.short_entries
  /\ payload_reads' = saved.payload_reads
  /\ parse_calls' = saved.parse_calls
  /\ extracted' = saved.extracted
  /\ opens' = saved.opens
  /\ UNCHANGED <<calls, prev, shared>>

NextConc ==
  \/ Open
  \/ ReadByteOrder
  \/ ReadMagic
  \/ ReadFirstIfdOffset
  \/ ScanIfdBegin
  \/ ScanIfdEntry
  \/ ScanIfdEnd
  \/ CheckExif
  \/ ScanExifBegin
  \/ ScanExifEntry
  \/ ScanExifEnd
  \/ CheckJson
  \/ ParseJson
  \/ Switch

SpecConc == InitConc /\ [][NextConc]_vars

(***************************************************************************)
(* Termination.  The interpreter runs a started call statement after       *)
(* statement until it returns: a call that has not returned takes its next *)
(* step (weak fairness on the steps of a call).  Whether a further call is *)
(* made is up to the caller.  The files: every shape with at most one      *)
(* entry per directory, the directories that are as long as the ceilings   *)
(* allow, over-sized counts, damaged headers, I/O failures, truncated      *)
(* files, offsets that point back into the file or beyond its end, and a   *)
(* payload nested as deep as the interpreter lets json.loads descend.      *)
(***************************************************************************)
LiveShapes == {in \in Shapes : Len(in.root) <= 1 /\ Len(in.exif) <= 1}

LiveInputs ==
  LiveShapes
  \cup {in \in Full : in.fault = "none"}
  \cup {[order |-> o, layout |-> "dir_first", fault |-> "none", cut |-> -1,
         rootpad |-> 0, root |-> r, exif |-> <<"ud_m42">>] :
          o \in Orders,
          r \in {<<"ptr_self">>, <<"ptr_far">>, <<"other", "ptr_self">>}}
  \cup {[order |-> o, layout |-> "dir_first", fault |-> "none", cut |-> -1,
         rootpad |-> 0, root |-> <<"ptr">>, exif |-> e] :
          o \in Orders,
          e \in {<<"ud_self">>, <<"ud_far">>, <<"ud_self", "ud_m42">>,
                 <<"ud_far", "ud_bad">>, <<"ud_deep">>,
                 <<"ud_junk", "ud_deep">>}}
  \cup {[order |-> o, layout |-> "dir_first", fault |-> f, cut |-> -1,
         rootpad |-> 0, root |-> <<"ptr">>, exif |-> <<"ud_m42">>] :
          o \in Orders, f \in Faults}
  \cup {[order |-> o, layout |-> "dir_first", fault |-> "none", cut |-> c,
         rootpad |-> 0, root |-> <<"ptr">>, exif |-> <<"ud_m42">>] :
          o \in Orders, c \in HeaderCuts \cup {22, 30, 39}}

InitLive ==
  /\ inp \in LiveInputs
  /\ file = FileOf(inp)
  /\ is_little_endian = TRUE
  /\ pc = "start"
  /\ is_open = FALSE
  /\ pos = 0
  /\ first_ifd_offset = 0
  /\ exif_offset = NoOffset
  /\ json_text = NoText
  /\ num_entries = 0
  /\ idx = 0
  /\ result = Pending
  /\ calls = 1
  /\ prev = [order |-> "-", result |-> Pending]
  /\ root_read = 0
  /\ exif_read = 0
  /\ short_entries = 0
  /\ payload_reads = <<>>
  /\ parse_calls = <<>>
  /\ extracted = <<>>
  /\ opens = 0
  /\ tid = 1
  /\ saved = NoThread
  /\ shared = FALSE

Stages ==
  {"start", "byte_order", "magic", "first_ifd", "scan_ifd", "ifd_loop",
   "check_exif", "scan_exif", "exif_loop", "check_json", "parse", "done"}

\* where a call is: its stage and the entries it has read
control == <<pc, root_read, exif_read>>

\* a step of a call that has not returned: every statement of
\* extract_astronomical_metadata moves the stage or reads one more entry
Running ==
  /\ pc # "done"
  /\ pc' \in Stages
  /\ root_read' \in {root_read, root_read + 1}
  /\ exif_read' \in {exif_read, exif_read + 1}

SpecLive == InitLive /\ [][Next]_vars /\ WF_control(Running)

(***************************************************************************)
(* Properties.                                                             *)
(***************************************************************************)
Has(seq, k) == \E j \in DOMAIN seq : seq[j] = k
HasAny(seq, S) == \E j \in DOMAIN seq : seq[j] \in S

\* index of the first element of seq that is in S, 0 when there is none
FirstOf(seq, S) ==
  IF HasAny(seq, S)
    THEN CHOOSE j \in DOMAIN seq :
           seq[j] \in S /\ \A i \in 1..(j - 1) : seq[i] \notin S
    ELSE 0

\* the file is exactly the layout of its logical structure
\* the first root entry of tag 34665 carries the offset of the EXIF IFD
\* the root entries of tag 34665
PointerKinds == {"ptr", "ptr0", "ptr_odd"}

PointsToExif ==
  /\ FirstOf(inp.root, PointerKinds) # 0
  /\ inp.root[FirstOf(inp.root, PointerKinds)] \in {"ptr", "ptr_odd"}

WellFormed == inp.fault = "none" /\ inp.cut = -1
\* byte-order marker and magic are intact
ValidHeader ==
  inp.fault \notin {"marker", "magic"} /\ (inp.cut = -1 \/ inp.cut >= 8)
\* the entries of tag 37500 and field type 7
UndefinedKinds == {"ud_m42", "ud_bad", "ud_junk"} \cup ExtraKinds
\* those of them whose decoded text contains "StackedInfo" and "{"
SniffKinds == {"ud_m42", "ud_bad"} \cup ExtraKinds
\* positions inside the EXIF walk and after it
ExifStages == {"scan_exif", "exif_loop", "check_json", "parse"}
\* positions inside a directory walk and after it
WalkStages == {"ifd_loop", "check_exif"} \cup ExifStages

\* {"StackedInfo": {"objectName": "M42"}}
M42Doc ==
  [t |-> "object",
   m |-> (kStackedInfo :>
            [t |-> "object",
             m |-> (kObjectName :> [t |-> "string", s |-> sM42])])]

HasStackedInfoAndBrace(text) ==
  /\ \E k \in 1..(Len(text) - 10) : SubSeq(text, k, k + 10) = kStackedInfo
  /\ \E k \in 1..Len(text) : text[k] = 123

RoundTripCase ==
  /\ WellFormed
  /\ PointsToExif
  /\ FirstOf(inp.exif, SniffKinds) # 0
  /\ inp.exif[FirstOf(inp.exif, SniffKinds)] = "ud_m42"

\* C1: a well-formed TIFF whose EXIF IFD holds the payload
\* {"StackedInfo":{"objectName":"M42"}} NUL under tag 37500, type 7, yields
\* the parsed document, whose StackedInfo.objectName is "M42"; any returned
\* document is the JSON parse of the decoded text of a tag-37500 payload.
C1_RoundTrip ==
  /\ (pc = "done" /\ RoundTripCase) =>
       /\ result = RDoc(M42Doc)
       /\ result.val.m[kStackedInfo].m[kObjectName].s = sM42
  /\ (pc = "done" /\ result.kind = "doc") =>
       \E j \in DOMAIN inp.exif :
         /\ inp.exif[j] \in UndefinedKinds
         /\ json_loads(Decode(PayloadOf(inp.exif[j]))).ok
         /\ result.val = json_loads(Decode(PayloadOf(inp.exif[j]))).v

C1_Witness ==
  /\ pc = "done"
  /\ RoundTripCase
  /\ inp.order = "MM"
  /\ inp.exif = <<"ud_m42">>
  /\ result = RDoc(M42Doc)

\* C2: with a valid header and no entry of tag 34665 in the root IFD, extract
\* returns None and performs no EXIF directory walk and no payload read.
C2_NoExifPointer ==
  (ValidHeader /\ ~PointsToExif) =>
    /\ pc \notin ExifStages
    /\ exif_read = 0
    /\ payload_reads = <<>>
    /\ (pc = "done" => result = RNone)

C2_Witness ==
  /\ pc = "done"
  /\ WellFormed
  /\ inp.root = <<"other", "other">>
  /\ Has(inp.exif, "ud_m42")
  /\ root_read = 2
  /\ result = RNone

\* C3: with a valid EXIF IFD that has no entry of tag 37500 and field type 7,
\* extract returns None; an entry of tag 37500 with another field type is
\* passed over like any other tag and its value bytes are never read.
C3_NoOriginEntry ==
  (WellFormed /\ ~HasAny(inp.exif, UndefinedKinds)) =>
    /\ payload_reads = <<>>
    /\ parse_calls = <<>>
    /\ pc # "parse"
    /\ (pc = "done" => result = RNone)

C3_Witness ==
  /\ pc = "done"
  /\ WellFormed
  /\ PointsToExif
  /\ Has(inp.exif, "asc_m42")
  /\ ~HasAny(inp.exif, UndefinedKinds)
  /\ exif_read = Len(inp.exif)
  /\ result = RNone

RootOversized == inp.fault = "rootover"
ExifOversized == inp.fault = "exifover" /\ PointsToExif

\* C4 as stated: an entry count above the ceiling (1000 root, 100 EXIF) ends
\* in a CorruptDirectory outcome that differs from None.
C4_AsStated ==
  (pc = "done" /\ (RootOversized \/ ExifOversized)) =>
    result.kind = "CorruptDirectory"

\* C4: an entry count above the ceiling (1000 root, 100 EXIF) makes extract
\* return None, the value of the 'absent' result, and no entry of the
\* over-sized directory is read.
C4_OverCeilingIsNone ==
  /\ RootOversized =>
       /\ root_read = 0 /\ exif_read = 0
       /\ (pc = "done" => result = RNone)
  /\ ExifOversized =>
       /\ exif_read = 0 /\ payload_reads = <<>>
       /\ (pc = "done" => result = RNone)

C4_Witness ==
  /\ pc = "done"
  /\ ExifOversized
  /\ Has(inp.exif, "ud_m42")
  /\ num_entries = EXIF_CEILING + 1
  /\ root_read >= 1
  /\ result = RNone

MalformedCase ==
  /\ WellFormed
  /\ PointsToExif
  /\ FirstOf(inp.exif, SniffKinds) # 0
  /\ inp.exif[FirstOf(inp.exif, SniffKinds)] = "ud_bad"

\* C5 as stated: a payload that passes the sniff and is not valid JSON ends
\* in an InvalidPayload outcome that differs from None.
C5_AsStated ==
  (pc = "done" /\ MalformedCase) => result.kind = "InvalidPayload"

\* C5: a payload that passes the sniff and is not valid JSON is handed to
\* json.loads, the decode error is caught and extract returns None, the value
\* of the 'absent' result.
C5_MalformedIsNone ==
  (pc = "done" /\ MalformedCase) =>
    /\ parse_calls = <<PayloadBad>>
    /\ result = RNone

C5_Witness ==
  /\ pc = "done"
  /\ MalformedCase
  /\ parse_calls = <<PayloadBad>>
  /\ result = RNone

\* C6: a decoded text lacking "StackedInfo" or "{" is never handed to
\* json.loads, and a file whose tag-37500 UNDEFINED values all lack them
\* yields None, not an error.
C6_SniffRejects ==
  /\ \A k \in DOMAIN parse_calls : HasStackedInfoAndBrace(parse_calls[k])
  /\ json_text # NoText => HasStackedInfoAndBrace(json_text)
  /\ (WellFormed /\ Has(inp.exif, "ud_junk") /\ ~HasAny(inp.exif, SniffKinds))
       => /\ parse_calls = <<>>
          /\ pc # "parse"
          /\ (pc = "done" => result = RNone)

C6_Witness ==
  /\ pc = "done"
  /\ WellFormed
  /\ PointsToExif
  /\ Has(inp.exif, "ud_junk")
  /\ ~HasAny(inp.exif, SniffKinds)
  /\ payload_reads # <<>>
  /\ parse_calls = <<>>
  /\ result = RNone

\* C7: the II encoding and the MM encoding of one logical structure give the
\* same result.
C7_ByteOrderIndependent ==
  (pc = "done" /\ calls > 1 /\ prev.order # inp.order) =>
    result = prev.result

C7_Witness ==
  /\ pc = "done"
  /\ calls > 1
  /\ prev.order = "II"
  /\ inp.order = "MM"
  /\ result = RDoc(M42Doc)
  /\ prev.result = RDoc(M42Doc)

\* C8 as stated: a file shorter than 8 bytes ends in a NotATiff or Io error
\* outcome, never in the 'absent' result.
C8_AsStated ==
  (pc = "done" /\ FileLen < 8) => result.kind \in {"NotATiff", "Io"}

\* C8: for a file shorter than 8 bytes extract returns None, the value of
\* the 'absent' result; no exception escapes, no directory is walked and the
\* cursor never passes the end of the file.
C8_TruncatedIsNone ==
  FileLen < 8 =>
    /\ pos <= FileLen
    /\ root_read = 0 /\ exif_read = 0
    /\ result \in {Pending, RNone}
    /\ (pc = "done" => result = RNone)

C8_Witness ==
  /\ pc = "done"
  /\ FileLen = 6
  /\ pos = 6
  /\ first_ifd_offset = 0
  /\ result = RNone

BadHeader == inp.fault \in {"marker", "magic"}

\* C9 as stated: a bad byte-order marker or a magic other than 42 ends in a
\* NotATiff outcome that differs from None.
C9_AsStated ==
  (pc = "done" /\ BadHeader) => result.kind = "NotATiff"

\* C9: with a bad byte-order marker or a magic other than 42, extract returns
\* None, the value of the 'absent' result, before any directory is walked.
C9_BadHeaderIsNone ==
  BadHeader =>
    /\ pc \notin {"scan_ifd"} \cup WalkStages
    /\ root_read = 0 /\ exif_read = 0
    /\ (pc = "done" => result = RNone)

C9_Witness ==
  /\ pc = "done"
  /\ inp.fault = "magic"
  /\ PointsToExif
  /\ Has(inp.exif, "ud_m42")
  /\ pos = 4
  /\ result = RNone

\* C10 as stated: when the file ends before all declared entries of a
\* directory have been read, the walk fails with CorruptDirectory.
C10_AsStated ==
  (pc = "done" /\ short_entries > 0) => result.kind = "CorruptDirectory"

\* C10: when the file ends before all declared entries of a directory have
\* been read, the missing bytes read as 0 and extract returns None, the value
\* of the 'absent' result; a partially read or missing entry never yields a
\* non-zero EXIF offset or a text for json.loads.
C10_ShortDirectoryIsNone ==
  short_entries > 0 =>
    /\ exif_read = 0 => exif_offset \in {NoOffset, 0}
    /\ json_text = NoText
    /\ pc # "parse"
    /\ (pc = "done" => result = RNone)

C10_Witness ==
  /\ pc = "done"
  /\ short_entries > 0
  /\ inp.order = "II"
  /\ \E k \in DOMAIN payload_reads :
       payload_reads[k] = [offset |-> 0, count |-> Len(PayloadM42)]
  /\ result = RNone

(***************************************************************************)
(* I/O failures.                                                           *)
(***************************************************************************)
IOFaults == {"noopen", "ioread", "iopay"}

\* C11 as stated: a failure to open or read the file produces an Io error
\* outcome that differs from the 'absent' result.
C11_AsStated ==
  (pc = "done" /\ inp.fault \in IOFaults) => result.kind = "Io"

\* C11: a failure to open or read the file is caught and extract returns
\* None, the value of the 'absent' result (open() failing leaves no handle
\* behind), and a short read is never an I/O error: a file cut inside the
\* first-IFD offset has that offset read as 0.
C11_IoFailureIsNone ==
  pc = "done" =>
    /\ inp.fault \in IOFaults => result = RNone /\ ~is_open
    /\ inp.fault = "noopen" => opens = 0
    /\ inp.fault = "iopay" => (extracted = <<>> /\ parse_calls = <<>>)
    /\ (FileLen \in 4..7 /\ inp.fault \notin IOFaults) =>
         first_ifd_offset = 0 /\ pos = FileLen

C11_Witness ==
  /\ pc = "done"
  /\ inp.fault = "iopay"
  /\ inp.exif = <<"ud_m42">>
  /\ Len(payload_reads) = 1
  /\ result = RNone

(***************************************************************************)
(* Several entries of tag 37500 and type 7.                                *)
(***************************************************************************)
\* the number of entries among the first n of seq whose kind is in S
RECURSIVE CountIn(_, _, _)
CountIn(seq, n, S) ==
  IF n = 0 THEN 0
  ELSE CountIn(seq, n - 1, S) + (IF seq[n] \in S THEN 1 ELSE 0)

\* "StackedInfo{"
StackedInfoBrace == [t |-> "string", s |-> kStackedInfo \o <<123>>]

\* what json.loads makes of the text of each kind of value
ParsedOf(kind) ==
  CASE kind \in {"ud_m42", "ud_stray"} -> RDoc(M42Doc)
    [] kind = "ud_arr" -> RDoc([t |-> "array", a |-> <<StackedInfoBrace>>])
    [] kind = "ud_str" -> RDoc(StackedInfoBrace)
    [] OTHER -> RNone

\* a well-formed file whose EXIF IFD is reached
WalkedCase == WellFormed /\ PointsToExif

\* C12 as stated: the first entry of tag 37500 and type 7 decides; when its
\* payload fails the sniff the result is None and no later payload is read.
C12_AsStated ==
  (/\ pc = "done"
   /\ WalkedCase
   /\ FirstOf(inp.exif, UndefinedKinds) # 0
   /\ inp.exif[FirstOf(inp.exif, UndefinedKinds)] \notin SniffKinds)
  => (result = RNone /\ Len(payload_reads) = 1)

\* C12: the first entry of tag 37500 and type 7 whose decoded text passes the
\* sniff decides the result: an earlier such entry whose text fails the sniff
\* is read and skipped, the walk stops at the deciding entry and no later
\* entry or payload is read; when the deciding text is not valid JSON the
\* result is None even if a later entry holds a valid document.  When no
\* text passes, every entry is read and the result is None.
C12_FirstAcceptedWins ==
  (pc = "done" /\ WalkedCase) =>
    LET j == FirstOf(inp.exif, SniffKinds)
    IN IF j # 0
         THEN /\ exif_read = j
              /\ Len(payload_reads) = CountIn(inp.exif, j, UndefinedKinds)
              /\ Len(parse_calls) = 1
              /\ result = ParsedOf(inp.exif[j])
         ELSE /\ exif_read = Len(inp.exif)
              /\ Len(payload_reads) =
                   CountIn(inp.exif, Len(inp.exif), UndefinedKinds)
              /\ parse_calls = <<>>
              /\ result = RNone

C12_Witness ==
  /\ pc = "done"
  /\ inp.fault = "none" /\ inp.cut = -1
  /\ inp.root = <<"ptr">>
  /\ inp.exif = <<"ud_junk", "ud_m42">>
  /\ Len(payload_reads) = 2
  /\ result = RDoc(M42Doc)

(***************************************************************************)
(* The kind of the returned value.                                         *)
(***************************************************************************)
\* C13: whenever extract returns a present result, it is a JSON object; a
\* text that passes the sniff and parses as an array or a string is never
\* returned.
C13_AsStated ==
  (pc = "done" /\ result.kind = "doc") => result.val.t = "object"

\* the value ["StackedInfo{"] under tag 37500, type 7, is returned as a list
C13_Witness ==
  /\ pc = "done"
  /\ inp.exif = <<"ud_arr">>
  /\ Len(parse_calls) = 1
  /\ result.kind = "doc"
  /\ result.val.t = "array"

(***************************************************************************)
(* The decoded text.                                                       *)
(***************************************************************************)
IsPrintable(b) == b \in 32..126

\* the index of the first zero byte of data, Len(data) + 1 when it has none
ZeroAt(data) ==
  IF \E i \in DOMAIN data : data[i] = 0
    THEN CHOOSE i \in DOMAIN data :
           data[i] = 0 /\ \A h \in 1..(i - 1) : data[h] # 0
    ELSE Len(data) + 1

\* the bytes of data before its first zero byte that lie in 0x20..0x7E
PrintableBeforeZero(data) ==
  SelectSeq(SubSeq(data, 1, ZeroAt(data) - 1), IsPrintable)

\* C14: the text decoded from a payload is exactly the subsequence of its
\* bytes that precede the first zero byte and lie in 0x20..0x7E, in their
\* order; other non-zero bytes are dropped without stopping the scan, and
\* nothing at or after the first zero byte contributes.  The text handed on
\* to the JSON parser is the text so decoded from the last payload read.
C14_DecodedText ==
  /\ \A k \in DOMAIN extracted :
       extracted[k].text = PrintableBeforeZero(extracted[k].data)
  /\ (json_text # NoText /\ extracted # <<>>) =>
       json_text = PrintableBeforeZero(extracted[Len(extracted)].data)

C14_Witness ==
  /\ pc = "done"
  /\ inp.exif = <<"ud_stray">>
  /\ Len(extracted) = 1
  /\ extracted[1].data = PayloadStray
  /\ extracted[1].text = SubSeq(PayloadM42, 1, Len(PayloadM42) - 1)
  /\ result = RDoc(M42Doc)

\* the bytes of data before its first byte that is zero or not printable
PrintablePrefix(data) ==
  IF \E i \in DOMAIN data : ~IsPrintable(data[i])
    THEN SubSeq(data, 1,
                (CHOOSE i \in DOMAIN data :
                   /\ ~IsPrintable(data[i])
                   /\ \A h \in 1..(i - 1) : IsPrintable(data[h])) - 1)
    ELSE data

\* C15 as stated: decoding stops at the first null byte or at the first byte
\* outside 0x20..0x7E, so no byte after a non-printable byte is in the text.
C15_AsStated ==
  \A k \in DOMAIN extracted :
    extracted[k].text = PrintablePrefix(extracted[k].data)

\* the number of printable bytes among the first n bytes of data
RECURSIVE PrintableCount(_, _)
PrintableCount(data, n) ==
  IF n = 0 THEN 0
  ELSE PrintableCount(data, n - 1) + (IF IsPrintable(data[n]) THEN 1 ELSE 0)

\* C15: decoding stops only at the first null byte; a non-zero byte outside
\* 0x20..0x7E is skipped, and every printable byte between it and the first
\* null byte still appears in the text, at the position given by the number
\* of printable bytes up to it.
C15_StopsOnlyAtNull ==
  \A k \in DOMAIN extracted :
    LET data == extracted[k].data
        text == extracted[k].text
        z == ZeroAt(data)
    IN /\ Len(text) = PrintableCount(data, z - 1)
       /\ \A i \in 1..(z - 1) :
            IsPrintable(data[i]) => text[PrintableCount(data, i)] = data[i]

C15_Witness ==
  /\ pc = "done"
  /\ inp.exif = <<"ud_junk">>
  /\ Len(extracted) = 1
  /\ extracted[1].data = PayloadJunk
  /\ extracted[1].text = <<65, 123>>
  /\ result = RNone

(***************************************************************************)
(* The out-of-line read.                                                   *)
(***************************************************************************)
\* C16 as stated: the payload is exactly count bytes long; a range that
\* extends past the end of the file is not accepted as a payload.
C16_AsStated ==
  \A k \in DOMAIN extracted :
    Len(extracted[k].data) = payload_reads[k].count

\* the number of bytes the file holds in [offset, offset + count)
Available(offset, count) ==
  IF offset >= FileLen THEN 0
  ELSE IF count >= FileLen - offset THEN FileLen - offset
  ELSE count

\* C16: the bytes decoded are the file bytes from value_offset on, count of
\* them when the file holds that many and otherwise those up to the end of
\* the file: the shorter byte string is accepted as the payload and decoded.
\* So the M42 document whose trailing zero byte is cut off is still
\* returned.
C16_ReadsWhatIsThere ==
  /\ \A k \in DOMAIN extracted :
       LET data == extracted[k].data
           offset == payload_reads[k].offset
           count == payload_reads[k].count
       IN /\ Len(data) = Available(offset, count)
          /\ \A i \in 1..Len(data) : data[i] = ByteAt(offset + i)
  /\ (/\ pc = "done"
      /\ inp.fault = "none"
      /\ inp.root = <<"ptr">> /\ inp.exif = <<"ud_m42">>
      /\ inp.cut = Len(FullFile(inp)) - 1)
     => result = RDoc(M42Doc)

C16_Witness ==
  /\ pc = "done"
  /\ inp.root = <<"ptr">> /\ inp.exif = <<"ud_m42">>
  /\ inp.cut = Len(FullFile(inp)) - 1
  /\ Len(extracted) = 1
  /\ payload_reads[1].count = Len(PayloadM42)
  /\ Len(extracted[1].data) = Len(PayloadM42) - 1
  /\ result = RDoc(M42Doc)

(***************************************************************************)
(* Directory offset 0.                                                     *)
(***************************************************************************)
\* the first root entry of tag 34665 carries the value 0
PointsToZero ==
  /\ inp.fault = "none" /\ inp.cut = -1
  /\ FirstOf(inp.root, PointerKinds) # 0
  /\ inp.root[FirstOf(inp.root, PointerKinds)] = "ptr0"

\* C17: a directory offset of 0 means 'directory absent'.  When the first
\* IFD offset is 0 no directory entry is read and the cursor stays at the
\* end of the header; when the first entry of tag 34665 carries the value 0
\* the EXIF walk is not entered and the cursor stays behind that entry.  In
\* both cases nothing is read at offset 0 as a directory and extract returns
\* None.
C17_ZeroOffsetIsAbsent ==
  /\ inp.fault = "ifd0" =>
       /\ root_read = 0 /\ exif_read = 0 /\ num_entries = 0
       /\ pc \notin WalkStages \ {"check_exif"}
       /\ pos <= RootOff
       /\ (pc = "check_exif" => exif_offset = NoOffset /\ pos = RootOff)
       /\ (pc = "done" => result = RNone)
  /\ PointsToZero =>
       /\ exif_read = 0 /\ payload_reads = <<>>
       /\ pc \notin ExifStages
       /\ (pc \in {"check_exif", "done"} =>
             /\ exif_offset = 0
             /\ root_read = FirstOf(inp.root, PointerKinds)
             /\ pos = RootOff + 2 + 12 * root_read)
       /\ (pc = "done" => result = RNone)

C17_Witness ==
  /\ pc = "done"
  /\ inp.root = <<"other", "ptr0">>
  /\ exif_offset = 0
  /\ root_read = 2
  /\ pos = RootOff + 2 + 24
  /\ result = RNone

(***************************************************************************)
(* The cursor during the EXIF walk.                                        *)
(***************************************************************************)
\* the cursor after n entries of the directory at offset have been read
\* one after the other, nothing else having moved it
CursorAfterEntries(offset, n) ==
  IF offset >= FileLen THEN offset
  ELSE IF 2 + 12 * n >= FileLen - offset THEN FileLen
  ELSE offset + 2 + 12 * n

\* C18: an out-of-line read leaves the cursor where it was, whatever the
\* offset and the count (ranges past the end of the file included): during
\* and after the EXIF walk the cursor is where reading the entry count and
\* the entries read so far, 12 bytes each, has put it, so each entry is read
\* from the bytes that follow the entry before it.
C18_ProbeKeepsCursor ==
  pc \in {"exif_loop", "check_json", "parse"} =>
    pos = CursorAfterEntries(exif_offset, exif_read)

C18_Witness ==
  /\ pc = "check_json"
  /\ inp.fault = "none" /\ inp.cut = -1
  /\ inp.exif = <<"ud_junk", "ud_m42">>
  /\ Len(extracted) = 2
  /\ exif_read = 2
  /\ pos = exif_offset + 2 + 24
  /\ json_text = SubSeq(PayloadM42, 1, Len(PayloadM42) - 1)

(***************************************************************************)
(* The file handle.                                                        *)
(***************************************************************************)
\* C20: a call opens at most one handle, holds it only between open() and
\* its return, and has closed it on every exit path by the time it returns;
\* no handle is open when a further call starts.
C20_ScopedHandle ==
  /\ opens <= 1
  /\ is_open => (opens = 1 /\ pc \notin {"start", "done"})
  /\ pc \in {"start", "done"} => ~is_open
  /\ (pc \notin {"start", "done"}) => is_open

C20_Witness ==
  /\ pc = "done"
  /\ calls = 2
  /\ inp.fault = "iopay"
  /\ opens = 1
  /\ payload_reads # <<>>
  /\ ~is_open

(***************************************************************************)
(* Two extractions at once.                                                *)
(***************************************************************************)
\* what a call on the well-formed file `in` returns when it runs alone
AloneResult(in) ==
  IF Has(in.root, "ptr") /\ FirstOf(in.exif, SniffKinds) # 0
    THEN ParsedOf(in.exif[FirstOf(in.exif, SniffKinds)])
    ELSE RNone

\* C19: in every interleaving of two extractions, on two readers or on one,
\* each call returns what it returns when run alone, and whenever a call is
\* past its byte-order marker the flag its reads are decoded with is the
\* byte order of its own file.
C19_Independent ==
  /\ pc = "done" => result = AloneResult(inp)
  /\ (saved # NoThread /\ saved.pc = "done") =>
       saved.result = AloneResult(saved.inp)
  /\ pc \notin {"start", "byte_order", "done"} =>
       is_little_endian = (inp.order = "II")

C19_Witness ==
  /\ saved # NoThread
  /\ ~shared
  /\ pc = "done" /\ saved.pc = "done"
  /\ inp.order # saved.inp.order
  /\ tid = 1
  /\ saved.opens = 1 /\ opens = 1
  /\ result = RDoc(M42Doc)
  /\ saved.result = RDoc(M42Doc)

(***************************************************************************)
(* The byte-order flag.                                                    *)
(***************************************************************************)
\* C21: the byte-order flag is assigned only by the header parse, when the
\* marker is read, and by nothing after it; so from the magic number on,
\* every multi-byte read of a call (also of a call on a reader used before,
\* for a file of the other byte order) is decoded with the byte order of
\* the marker of the file being read.
C21_ByteOrderFixedOnce ==
  /\ [](pc \in {"magic", "first_ifd"} \cup WalkStages =>
          is_little_endian = (inp.order = "II"))
  /\ [][is_little_endian' # is_little_endian => pc = "byte_order"]_vars

C21_Witness ==
  /\ calls = 2
  /\ prev.order = "II" /\ inp.order = "MM"
  /\ prev.result = RDoc(M42Doc)
  /\ pc = "exif_loop"
  /\ exif_read = 1
  /\ ~is_little_endian

(***************************************************************************)
(* Directories as large as the ceilings.                                   *)
(***************************************************************************)
\* a well-formed file whose root IFD declares 1000 entries and whose EXIF
\* IFD declares 100 entries
FullCase ==
  /\ WellFormed
  /\ NRoot(inp) = ROOT_CEILING
  /\ Len(inp.exif) = EXIF_CEILING

\* C22: the ceilings are inclusive.  A root IFD of exactly 1000 entries and
\* an EXIF IFD of exactly 100 entries are walked to their last entry, so the
\* EXIF pointer in root entry 1000 and the payload in EXIF entry 100 are
\* found and the document is returned; declared counts of 1001 and 101 are
\* rejected before any entry of that directory is read.
C22_CeilingsInclusive ==
  /\ FullCase =>
       /\ (pc \in ExifStages \cup {"check_exif", "done"} =>
             root_read = ROOT_CEILING /\ exif_offset = ExifOff(inp))
       /\ (pc \in {"check_json", "parse", "done"} =>
             exif_read = EXIF_CEILING /\ Len(payload_reads) = 1)
       /\ (pc = "done" => result = RDoc(M42Doc))
  /\ (inp.fault = "rootover" /\ pc \notin {"start", "byte_order", "magic",
                                            "first_ifd", "scan_ifd"}) =>
       num_entries = ROOT_CEILING + 1 /\ root_read = 0
  /\ (inp.fault = "exifover" /\ PointsToExif
        /\ pc \in {"check_json", "done"}) =>
       num_entries = EXIF_CEILING + 1 /\ exif_read = 0

C22_Witness ==
  /\ pc = "done"
  /\ FullCase
  /\ num_entries = EXIF_CEILING
  /\ root_read = ROOT_CEILING
  /\ exif_read = EXIF_CEILING
  /\ result = RDoc(M42Doc)

(***************************************************************************)
(* Termination.                                                            *)
(***************************************************************************)
\* the position of a stage in extract_astronomical_metadata
StageRank(p) ==
  CASE p = "start" -> 0
    [] p = "byte_order" -> 1
    [] p = "magic" -> 2
    [] p = "first_ifd" -> 3
    [] p = "scan_ifd" -> 4
    [] p = "ifd_loop" -> 5
    [] p = "check_exif" -> 6
    [] p = "scan_exif" -> 7
    [] p = "exif_loop" -> 8
    [] p = "check_json" -> 9
    [] p = "parse" -> 10
    [] p = "done" -> 11

\* what is left of a call: the stages to come and, inside a loop, the
\* iterations to come
Variant ==
  (11 - StageRank(pc)) * (ROOT_CEILING + 1)
    + (IF pc \in {"ifd_loop", "exif_loop"} THEN num_entries - idx ELSE 0)

\* C23: every call returns, whatever the file holds (offsets that point back
\* into the file or beyond its end included): a call reads at most 1000 root
\* entries and 100 EXIF entries, and every step of a call takes it nearer to
\* its return (a later stage, or one iteration less in the same walk), so no
\* directory is walked twice, no chain of directories is followed and
\* nothing is tried again.
C23_Terminates ==
  /\ [](/\ root_read <= ROOT_CEILING
        /\ exif_read <= EXIF_CEILING
        /\ Variant >= 0)
  /\ [][calls' = calls => Variant' < Variant]_vars
  /\ (pc = "start") ~> (pc = "done")

\* the second call on a file whose EXIF pointer names the root IFD itself
\* has walked that directory once as the root IFD and once as the EXIF IFD
\* and has returned
C23_Witness ==
  /\ pc = "done"
  /\ calls = 2
  /\ inp.root = <<"other", "ptr_self">>
  /\ exif_offset = first_ifd_offset
  /\ root_read = 2
  /\ exif_read = 2
  /\ result = RNone

(***************************************************************************)
(* Short reads.                                                            *)
(***************************************************************************)
\* the entry read_uint16 and read_uint32 give with the cursor at p when no
\* byte is left
ZeroEntry(p) ==
  [tag |-> 0, entry_type |-> 0, count |-> 0, value_offset |-> 0, end |-> p]

\* the places around the end of the file
NearEnd == {p \in (FileLen - 3) .. (FileLen + 1) : p >= 0}

\* C24: read_uint16 and read_uint32 answer 0 when fewer than 2 and 4 bytes
\* are left; so every field of a directory entry that lies beyond the end of
\* the file reads 0, such an entry matches neither the EXIF pointer tag nor
\* the payload tag, and a walk that finds nothing in a directory cut short
\* by the end of the file has still read as many entries as the directory
\* declares.
C24_ShortReadsAreZero ==
  /\ pc \in {"magic", "check_exif"} =>
       \A p \in NearEnd :
         /\ FileLen - p < 2 => read_uint16(p) = 0
         /\ FileLen - p < 4 => read_uint32(p) = 0
  /\ (pc \in {"ifd_loop", "exif_loop"} /\ pos >= FileLen) =>
       LET e == ReadEntry(pos)
       IN /\ e = ZeroEntry(pos)
          /\ ~IsExifTag(e.tag)
          /\ ~IsOriginEntry(e.tag, e.entry_type)
  /\ (pc = "check_exif" /\ short_entries > 0 /\ exif_offset = NoOffset) =>
       /\ root_read = num_entries
       /\ pos >= FileLen
  /\ (pc = "check_json" /\ short_entries > 0 /\ json_text = NoText) =>
       /\ exif_read = num_entries
       /\ pos >= FileLen

\* a root IFD of two entries whose second entry lies wholly beyond the end
\* of the file: both entries have been read and nothing was found
C24_Witness ==
  /\ pc = "done"
  /\ inp.root = <<"other", "other">>
  /\ inp.cut = RootEnd(inp) - 4 - 12
  /\ num_entries = 2
  /\ root_read = 2
  /\ short_entries = 1
  /\ pos = FileLen
  /\ result = RNone

(***************************************************************************)
(* The order of the stages.                                                *)
(***************************************************************************)
\* the value field of the first root entry of tag 34665
FirstPointerValue ==
  IF inp.root[FirstOf(inp.root, PointerKinds)] = "ptr0" THEN 0
  ELSE ExifOff(inp)

\* C25: the root walk stops at the first entry of tag 34665 and takes the
\* value field of that entry as the EXIF offset, whatever its field type and
\* count; the root entries after it are not read.  The EXIF IFD is walked and
\* a payload is read only after that lookup gave an offset, and a call never
\* goes back to an earlier stage of header, root walk, EXIF walk, payload.
C25_StagesInOrder ==
  /\ [](/\ (/\ WellFormed
            /\ HasAny(inp.root, PointerKinds)
            /\ pc \in {"check_exif", "done"} \cup ExifStages) =>
              /\ root_read = inp.rootpad + FirstOf(inp.root, PointerKinds)
              /\ exif_offset = FirstPointerValue
        /\ (pc \in ExifStages \/ exif_read > 0 \/ payload_reads # <<>>) =>
              /\ exif_offset \notin {NoOffset, 0}
              /\ root_read >= 1
        /\ payload_reads # <<>> => exif_read >= 1)
  /\ [][StageRank(pc') >= StageRank(pc) \/ pc' = "start"]_vars

\* the first of two EXIF pointers is a SHORT entry of count 7: its value was
\* used, the zero pointer after it was not read, and the document was found
C25_Witness ==
  /\ pc = "done"
  /\ inp.root = <<"ptr_odd", "ptr0">>
  /\ root_read = 1
  /\ exif_offset = ExifOff(inp)
  /\ exif_read = 1
  /\ Len(payload_reads) = 1
  /\ result = RDoc(M42Doc)

(***************************************************************************)
(* The outcomes of a call.                                                 *)
(***************************************************************************)
\* C26 as stated: a call of extract_astronomical_metadata ends in one of two
\* ways, with a parsed JSON document or with None.
C26_AsStated ==
  pc = "done" => result.kind \in {"doc", "None"}

\* the payload is a JSON document nested as deep as the recursion limit: it
\* passed the sniff, json.loads was called on it once, and the call ended
\* with RecursionError, the file closed
C26_Witness ==
  /\ pc = "done"
  /\ inp.exif = <<"ud_deep">>
  /\ Len(extracted) = 1
  /\ extracted[1].data = PayloadDeep
  /\ parse_calls = <<SubSeq(PayloadDeep, 1, Len(PayloadDeep) - 1)>>
  /\ result = OnRecursionError
  /\ ~is_open

====
